---- MODULE Spec2Model ----
(***************************************************************************)
(* crux-es: the on-memory event store, the organization and user           *)
(* collections and the event broker of examples/org.rs, as a state machine. *)
(* Every HashMap is a function whose DOMAIN is the set of keys present.     *)
(***************************************************************************)
EXTENDS Integers, Sequences, FiniteSets, TLC

VARIABLES
    org_events,               \* OnMemoryEventStore.org_events
    org_uncommitted_events,   \* OnMemoryEventStore.org_uncommitted_events
    user_events,              \* OnMemoryEventStore.user_events
    user_uncommitted_events,  \* OnMemoryEventStore.user_uncommitted_events
    in_transaction,           \* OnMemoryEventStore.in_transaction
    length,                   \* UserCollection.length
    broker_faulty,            \* whether the broker's publish may return Err
    pc,                       \* position of the caller: "ready", inside commit, or panicked
    org_event_to_publish,     \* commit's local clone of org_uncommitted_events
    user_event_to_publish,    \* commit's local clone of user_uncommitted_events
    org_iter,                 \* keys the first publish loop has not visited yet
    user_iter,                \* keys the second publish loop has not visited yet
    published,                \* the batches handed to broker.publish by the running commit
    op,                       \* the operation called last
    ret,                      \* what it returned
    limit,                    \* how many events the store may hold in this exploration
    uc,                       \* locals of the running user_add_usecase
    orders,                   \* the Order instances of src/backlog/tests.rs, by id
    test_store                \* the OnMemoryEventStore of src/event_store/tests.rs

vars == <<org_events, org_uncommitted_events, user_events, user_uncommitted_events,
          in_transaction, length, broker_faulty, pc, org_event_to_publish,
          user_event_to_publish, org_iter, user_iter, published, op, ret, limit, uc,
          orders, test_store>>

store_vars == <<org_events, org_uncommitted_events, user_events,
                user_uncommitted_events, in_transaction>>

commit_vars == <<org_event_to_publish, user_event_to_publish, org_iter, user_iter,
                 published>>

(***************************************************************************)
(* Bounds of the model.                                                    *)
(***************************************************************************)
\* Events held by the store at once, buffered and durable together.
MaxEvents == 3
\* Largest value UserCollection.length is allowed to reach.
MaxUserId == 2

OrgNames == {"a", "b"}
UserNames == {"u"}
Emails == {"e"}
Caps == {1}
UserIds == 1..MaxUserId

(***************************************************************************)
(* Ids and events.                                                         *)
(***************************************************************************)
\* format!("{}-{}", a, b)
Format(a, b) == a \o "-" \o b

OrganizationId(name) == name
UserId(n) == n
UserOrganizationId(s) == s

\* OrganizationEvent
Renamed(name) == [t |-> "Renamed", name |-> name]
UserReserved(uo_id) == [t |-> "UserReserved", uo |-> uo_id]
UserAdded(user_id, uo_id) == [t |-> "UserAdded", user |-> user_id, uo |-> uo_id]
UserRemoved(user_id) == [t |-> "UserRemoved", user |-> user_id]
\* UserEvent
EmailChanged(email) == [t |-> "EmailChanged", email |-> email]

\* OrganizationCollectionEvent
OrgCreated(id, data) ==
    [k |-> "Created", id |-> id, name |-> data[1], max_users |-> data[2]]
OrgAggregate(id, ev) == [k |-> "Aggregate", id |-> id, ev |-> ev]
OrgDeleted(id) == [k |-> "Deleted", id |-> id]

\* UserCollectionEvent
UserCreated(id, data) ==
    [k |-> "Created", id |-> id, name |-> data[1], email |-> data[2],
     organization_id |-> data[3], uo_id |-> data[4]]
UserAggregate(id, ev) == [k |-> "Aggregate", id |-> id, ev |-> ev]
UserDeleted(id) == [k |-> "Deleted", id |-> id]

\* CollectionEvent::aggregate_id, the same match for both event types
aggregate_id(e) ==
    CASE e.k = "Created" -> e.id
      [] e.k = "Aggregate" -> e.id
      [] e.k = "Deleted" -> e.id

(***************************************************************************)
(* HashMap<Id, Vec<Event>>.                                                *)
(***************************************************************************)
EmptyMap == [x \in {} |-> <<>>]

\* map.get(&id).cloned().unwrap_or_default()
GetOrDefault(m, id) == IF id \in DOMAIN m THEN m[id] ELSE <<>>

\* map.entry(id).or_default().push(event)
EntryPush(m, id, event) ==
    [x \in DOMAIN m \cup {id} |-> IF x = id THEN GetOrDefault(m, id) \o <<event>> ELSE m[x]]

\* An extend that puts the new events in front of the ones the entry holds.
EntryExtendFront(m, id, events) ==
    [x \in DOMAIN m \cup {id} |-> IF x = id THEN events \o GetOrDefault(m, id) ELSE m[x]]

\* map.entry(id).or_default().extend(events)
EntryExtend(m, id, events) ==
    [x \in DOMAIN m \cup {id} |-> IF x = id THEN GetOrDefault(m, id) \o events ELSE m[x]]

\* for event in events { uncommitted.entry(event.aggregate_id()).or_default().push(event) }
RECURSIVE BufferAll(_, _)
BufferAll(m, events) ==
    IF events = <<>> THEN m
    ELSE BufferAll(EntryPush(m, aggregate_id(Head(events)), Head(events)), Tail(events))

\* for (id, events) in uncommitted.drain() { durable.entry(id).or_default().extend(events) }
\* The entries are visited in an arbitrary order; they have distinct keys, so
\* every order gives the same map.
RECURSIVE DrainInto(_, _)
DrainInto(durable, uncommitted) ==
    IF DOMAIN uncommitted = {} THEN durable
    ELSE LET id == CHOOSE x \in DOMAIN uncommitted : TRUE
             rest == [x \in DOMAIN uncommitted \ {id} |-> uncommitted[x]]
         IN DrainInto(EntryExtend(durable, id, uncommitted[id]), rest)

TotalLen(m) ==
    LET RECURSIVE Sum(_)
        Sum(S) == IF S = {} THEN 0
                  ELSE LET x == CHOOSE y \in S : TRUE IN Len(m[x]) + Sum(S \ {x})
    IN Sum(DOMAIN m)

\* Events the store holds, buffered and durable.
Held == TotalLen(org_events) + TotalLen(org_uncommitted_events)
        + TotalLen(user_events) + TotalLen(user_uncommitted_events)

(***************************************************************************)
(* Results.                                                                *)
(***************************************************************************)
Ok == [res |-> "Ok"]
\* EventStoreError("Not in transaction".to_string())
NotInTransaction == [res |-> "Err", err |-> "Not in transaction"]
Running == [res |-> "Running"]

\* The record of a call: its name and, for create, its data.
Called(name) == [name |-> name]
CalledWith(name, data) == [name |-> name, data |-> data]
\* The record of a call on one aggregate: find(id), handle_command(id, command).
CalledOn(name, id) == [name |-> name, id |-> id]
CalledCommand(name, id, command) == [name |-> name, id |-> id, command |-> command]

\* No user_add_usecase is running.
NoUsecase == [running |-> FALSE]

\* OnMemoryEventStore::new of src/event_store/tests.rs
TestStoreNew == [is_transaction_active |-> FALSE, events |-> EmptyMap]

(***************************************************************************)
(* OnMemoryEventStore: TransactionManager.                                 *)
(***************************************************************************)
\* main, lines 542-551: the store and the collections as constructed.
Constructed ==
    /\ org_events = EmptyMap
    /\ org_uncommitted_events = EmptyMap
    /\ user_events = EmptyMap
    /\ user_uncommitted_events = EmptyMap
    /\ in_transaction = FALSE
    /\ length = 0
    /\ pc = "ready"
    /\ org_event_to_publish = EmptyMap
    /\ user_event_to_publish = EmptyMap
    /\ org_iter = {}
    /\ user_iter = {}
    /\ published = <<>>
    /\ op = Called("new")
    /\ ret = Ok
    /\ uc = NoUsecase
    /\ orders = EmptyMap
    /\ test_store = TestStoreNew

\* With OnMemoryEventBroker, whose publish always returns Ok(()).
Init == Constructed /\ broker_faulty = FALSE /\ limit = MaxEvents

\* With a broker whose publish may return Err, as the EventBroker trait allows.
InitFaulty == Constructed /\ broker_faulty = TRUE /\ limit = MaxEvents

begin ==
    /\ pc = "ready"
    /\ in_transaction' = TRUE
    /\ op' = Called("begin")
    /\ ret' = Ok
    /\ UNCHANGED <<org_events, org_uncommitted_events, user_events,
                   user_uncommitted_events, length, broker_faulty, limit, uc, orders, test_store, pc, commit_vars>>

\* A commit that inserts the buffered events in place of the durable log.
CommitDurableInsert(durable, uncommitted) ==
    [x \in DOMAIN durable \cup DOMAIN uncommitted |->
        IF x \in DOMAIN uncommitted THEN uncommitted[x] ELSE durable[x]]

\* commit, lines 417-429: clone the buffers, drain them into the durable logs,
\* leave the transaction.  The publish loops follow as steps of their own.
CommitDurable(durable, uncommitted) == DrainInto(durable, uncommitted)

\* A commit that resets the flag only after the publish loops.
CommitInTransactionLate == in_transaction

\* self.in_transaction = false, before the publish loops
CommitInTransaction == FALSE

\* Where commit is called from: by the caller of the store, or by
\* user_add_usecase at its last statement.
CommitCallers == {"ready", "uc_commit"}

commit ==
    /\ pc \in CommitCallers
    /\ org_event_to_publish' = org_uncommitted_events
    /\ user_event_to_publish' = user_uncommitted_events
    /\ org_events' = CommitDurable(org_events, org_uncommitted_events)
    /\ org_uncommitted_events' = EmptyMap
    /\ user_events' = CommitDurable(user_events, user_uncommitted_events)
    /\ user_uncommitted_events' = EmptyMap
    /\ in_transaction' = CommitInTransaction
    /\ org_iter' = DOMAIN org_uncommitted_events
    /\ user_iter' = DOMAIN user_uncommitted_events
    /\ published' = <<>>
    /\ pc' = "commit_publish"
    /\ op' = Called("commit")
    /\ ret' = Running
    /\ UNCHANGED <<length, broker_faulty, limit, uc, orders, test_store>>

\* EventBroker::publish: OnMemoryEventBroker always returns Ok(()); the trait
\* allows Err.
PublishOutcomes == IF broker_faulty THEN {"Ok", "Err"} ELSE {"Ok"}

\* A loop that publishes the first event of each batch only.
PublishedBatchHead(to_publish, id) == <<Head(to_publish[id])>>

\* The `events` of one iteration: the whole batch of one id.
PublishedBatch(to_publish, id) == to_publish[id]

\* A call of OnMemoryEventBroker's publish for organization events, and of
\* its publish for user events.
OrgPublish(events) == [kind |-> "org", events |-> events]
UserPublish(events) == [kind |-> "user", events |-> events]

\* One iteration of `for (_, events) in org_event_to_publish`, then of
\* `for (_, events) in user_event_to_publish`: publish(events).unwrap().
commit_publish_org ==
    /\ pc = "commit_publish"
    /\ \E id \in org_iter : \E outcome \in PublishOutcomes :
        /\ published' = Append(published, OrgPublish(PublishedBatch(org_event_to_publish, id)))
        /\ org_iter' = org_iter \ {id}
        /\ pc' = IF outcome = "Ok" THEN "commit_publish" ELSE "panicked"
    /\ UNCHANGED <<store_vars, length, broker_faulty, limit, uc, orders, test_store, org_event_to_publish,
                   user_event_to_publish, user_iter, op, ret>>

commit_publish_user ==
    /\ pc = "commit_publish"
    /\ org_iter = {}
    /\ \E id \in user_iter : \E outcome \in PublishOutcomes :
        /\ published' = Append(published, UserPublish(PublishedBatch(user_event_to_publish, id)))
        /\ user_iter' = user_iter \ {id}
        /\ pc' = IF outcome = "Ok" THEN "commit_publish" ELSE "panicked"
    /\ UNCHANGED <<store_vars, length, broker_faulty, limit, uc, orders, test_store, org_event_to_publish,
                   user_event_to_publish, org_iter, op, ret>>

\* Ok(()) at the end of commit; its locals are dropped.
commit_return ==
    /\ pc = "commit_publish"
    /\ org_iter = {}
    /\ user_iter = {}
    /\ pc' = IF uc.running THEN "uc_return" ELSE "ready"
    /\ ret' = Ok
    /\ org_event_to_publish' = EmptyMap
    /\ user_event_to_publish' = EmptyMap
    /\ published' = <<>>
    /\ UNCHANGED <<store_vars, length, broker_faulty, limit, uc, orders, test_store, org_iter, user_iter, op>>

\* rollback: only the flag is reset; the buffers are not touched.
rollback ==
    /\ pc = "ready"
    /\ in_transaction' = FALSE
    /\ op' = Called("rollback")
    /\ ret' = Ok
    /\ UNCHANGED <<org_events, org_uncommitted_events, user_events,
                   user_uncommitted_events, length, broker_faulty, limit, uc, orders, test_store, pc, commit_vars>>

(***************************************************************************)
(* OnMemoryEventStore: EventStore<OrganizationCollectionEvent> and          *)
(* EventStore<UserCollectionEvent>.                                         *)
(***************************************************************************)
\* A save that buffers without looking at in_transaction.
SaveBufferUnchecked(uncommitted, events) == BufferAll(uncommitted, events)

\* The buffer after save(events): filled inside a transaction, as it was outside.
SaveBuffer(uncommitted, events) ==
    IF in_transaction THEN BufferAll(uncommitted, events) ELSE uncommitted

\* A save that writes straight to the durable map.
SaveDurableDirect(durable, events) == BufferAll(durable, events)

\* The durable map after save(events): save never writes to it.
SaveDurable(durable, events) == durable

\* What save returns.
SaveResult == IF in_transaction THEN Ok ELSE NotInTransaction

\* Whether the events fit the model's bound (a failing save holds nothing).
Fits(n) == in_transaction => Held + n <= limit

save_org(events) ==
    /\ pc = "ready"
    /\ Fits(Len(events))
    /\ org_uncommitted_events' = SaveBuffer(org_uncommitted_events, events)
    /\ org_events' = SaveDurable(org_events, events)
    /\ op' = Called("save_org")
    /\ ret' = SaveResult
    /\ UNCHANGED <<user_events, user_uncommitted_events, in_transaction,
                   length, broker_faulty, limit, uc, orders, test_store, pc, commit_vars>>

save_user(events) ==
    /\ pc = "ready"
    /\ Fits(Len(events))
    /\ user_uncommitted_events' = SaveBuffer(user_uncommitted_events, events)
    /\ user_events' = SaveDurable(user_events, events)
    /\ op' = Called("save_user")
    /\ ret' = SaveResult
    /\ UNCHANGED <<org_events, org_uncommitted_events, in_transaction,
                   length, broker_faulty, limit, uc, orders, test_store, pc, commit_vars>>

\* A load that also returns what the open transaction has buffered.
load_org_dirty(id) ==
    GetOrDefault(org_events, id) \o GetOrDefault(org_uncommitted_events, id)

\* load reads the durable map only.
load_org(id) == GetOrDefault(org_events, id)
load_user(id) == GetOrDefault(user_events, id)

(***************************************************************************)
(* Aggregates.                                                             *)
(***************************************************************************)
\* Organization::new
NewOrganization(name, max_users) ==
    [name |-> name, users |-> EmptyMap, max_users |-> max_users]

\* User::new
NewUser(name, email, organization_id, uo_id) ==
    [name |-> name, email |-> email, organization_id |-> organization_id,
     uo_id |-> uo_id]

\* HashMap::insert and HashMap::remove on Organization.users
Insert(m, key, v) == [x \in DOMAIN m \cup {key} |-> IF x = key THEN v ELSE m[x]]
Remove(m, key) == [x \in DOMAIN m \ {key} |-> m[x]]

\* Organization::apply_event
OrgApplyEvent(self, event) ==
    CASE event.t = "Renamed" -> [self EXCEPT !.name = event.name]
      [] event.t = "UserReserved" -> self
      [] event.t = "UserAdded" ->
            [self EXCEPT !.users = Insert(self.users, event.user, event.uo)]
      [] event.t = "UserRemoved" -> [self EXCEPT !.users = Remove(self.users, event.user)]

\* OrganizationCommand
CmdRename(name) == [c |-> "Rename", name |-> name]
CmdUserReserve(name) == [c |-> "UserReserve", name |-> name]
CmdAddUser(user_id, uo_id) == [c |-> "AddUser", user |-> user_id, uo |-> uo_id]
CmdRemoveUser(user_id) == [c |-> "RemoveUser", user |-> user_id]
\* UserCommand
CmdChangeEmail(email) == [c |-> "ChangeEmail", email |-> email]

Events(es) == [res |-> "Ok", events |-> es]
DomainError(e) == [res |-> "Err", err |-> e]

\* An organization that rejects AddUser one user before the cap.
OrgHandleCapEarly(self, command) ==
    CASE command.c = "Rename" -> Events(<<Renamed(command.name)>>)
      [] command.c = "UserReserve" ->
            Events(<<UserReserved(UserOrganizationId(Format(self.name, command.name)))>>)
      [] command.c = "AddUser" ->
            IF Cardinality(DOMAIN self.users) + 1 >= self.max_users
            THEN DomainError("MaxUsersReached")
            ELSE Events(<<UserAdded(command.user, command.uo)>>)
      [] command.c = "RemoveUser" ->
            IF command.user \notin DOMAIN self.users
            THEN DomainError("UserNotFound")
            ELSE Events(<<UserRemoved(command.user)>>)

\* An organization that accepts AddUser whatever the size of users.
OrgHandleUncapped(self, command) ==
    CASE command.c = "Rename" -> Events(<<Renamed(command.name)>>)
      [] command.c = "UserReserve" ->
            Events(<<UserReserved(UserOrganizationId(Format(self.name, command.name)))>>)
      [] command.c = "AddUser" -> Events(<<UserAdded(command.user, command.uo)>>)
      [] command.c = "RemoveUser" ->
            IF command.user \notin DOMAIN self.users
            THEN DomainError("UserNotFound")
            ELSE Events(<<UserRemoved(command.user)>>)

\* Organization::handle_command
OrgHandle(self, command) ==
    CASE command.c = "Rename" -> Events(<<Renamed(command.name)>>)
      [] command.c = "UserReserve" ->
            Events(<<UserReserved(UserOrganizationId(Format(self.name, command.name)))>>)
      [] command.c = "AddUser" ->
            IF Cardinality(DOMAIN self.users) >= self.max_users
            THEN DomainError("MaxUsersReached")
            ELSE Events(<<UserAdded(command.user, command.uo)>>)
      [] command.c = "RemoveUser" ->
            IF command.user \notin DOMAIN self.users
            THEN DomainError("UserNotFound")
            ELSE Events(<<UserRemoved(command.user)>>)

\* User::apply_event
UserApplyEvent(self, event) ==
    CASE event.t = "Renamed" -> [self EXCEPT !.name = event.name]
      [] event.t = "EmailChanged" -> [self EXCEPT !.email = event.email]

\* User::handle_command
UserHandle(self, command) ==
    CASE command.c = "Rename" -> Events(<<Renamed(command.name)>>)
      [] command.c = "ChangeEmail" -> Events(<<EmailChanged(command.email)>>)

(***************************************************************************)
(* Collections.                                                            *)
(***************************************************************************)
None == [res |-> "Ok", some |-> FALSE]
Some(aggregate) == [res |-> "Ok", some |-> TRUE, aggregate |-> aggregate]
InvalidEvent(e) == [res |-> "Err", err |-> "InvalidEvent", event |-> e]
NotFound(id) == [res |-> "Err", err |-> "NotFound", id |-> id]
\* Store(format!("{:?}", e)) of the store's only error
StoreError == [res |-> "Err", err |-> "Store",
               msg |-> "EventStoreError(\"Not in transaction\")"]
\* OrganizationCollectionError::Origanization(e), UserCollectionError::User(e)
Wrapped(e) == [res |-> "Err", err |-> "Aggregate", of |-> e.err]
Success == [res |-> "Ok", response |-> "Success"]

\* A find loop that starts over from the payload of a later Created event.
RECURSIVE OrgFoldRecreate(_, _)
OrgFoldRecreate(found, events) ==
    IF events = <<>> THEN found
    ELSE LET event == Head(events) IN
         CASE event.k = "Aggregate" ->
                OrgFoldRecreate(
                    IF found.some THEN Some(OrgApplyEvent(found.aggregate, event.ev))
                    ELSE found, Tail(events))
           [] event.k = "Deleted" -> None
           [] OTHER ->
                OrgFoldRecreate(Some(NewOrganization(event.name, event.max_users)),
                                Tail(events))

\* A find loop that steps over Deleted events as it steps over Created ones.
RECURSIVE OrgFoldDeletedSkipped(_, _)
OrgFoldDeletedSkipped(found, events) ==
    IF events = <<>> THEN found
    ELSE LET event == Head(events) IN
         CASE event.k = "Aggregate" ->
                OrgFoldDeletedSkipped(
                    IF found.some THEN Some(OrgApplyEvent(found.aggregate, event.ev))
                    ELSE found, Tail(events))
           [] OTHER -> OrgFoldDeletedSkipped(found, Tail(events))

\* The loop of find over the events after the first.
RECURSIVE OrgFold(_, _)
OrgFold(found, events) ==
    IF events = <<>> THEN found
    ELSE LET event == Head(events) IN
         CASE event.k = "Aggregate" ->
                OrgFold(IF found.some THEN Some(OrgApplyEvent(found.aggregate, event.ev))
                        ELSE found, Tail(events))
           [] event.k = "Deleted" -> None
           [] OTHER -> OrgFold(found, Tail(events))

\* A find that builds the aggregate from the first event and stops there.
OrgFindInFirstOnly(events) ==
    IF events = <<>> THEN None
    ELSE IF Head(events).k = "Created"
         THEN Some(NewOrganization(Head(events).name, Head(events).max_users))
         ELSE InvalidEvent(Head(events))

\* OrganizationCollection::find, on the loaded events
OrgFindIn(events) ==
    IF events = <<>> THEN None
    ELSE IF Head(events).k = "Created"
         THEN OrgFold(Some(NewOrganization(Head(events).name, Head(events).max_users)),
                      Tail(events))
         ELSE InvalidEvent(Head(events))

\* A find that replays the buffered events after the durable ones.
OrgFindBuffered(id) ==
    OrgFindIn(load_org(id) \o GetOrDefault(org_uncommitted_events, id))

OrgFind(id) == OrgFindIn(load_org(id))

RECURSIVE UserFold(_, _)
UserFold(found, events) ==
    IF events = <<>> THEN found
    ELSE LET event == Head(events) IN
         CASE event.k = "Aggregate" ->
                UserFold(IF found.some THEN Some(UserApplyEvent(found.aggregate, event.ev))
                         ELSE found, Tail(events))
           [] event.k = "Deleted" -> None
           [] OTHER -> UserFold(found, Tail(events))

\* UserCollection::find, on the loaded events
UserFindIn(events) ==
    IF events = <<>> THEN None
    ELSE IF Head(events).k = "Created"
         THEN UserFold(Some(NewUser(Head(events).name, Head(events).email,
                                    Head(events).organization_id, Head(events).uo_id)),
                       Tail(events))
         ELSE InvalidEvent(Head(events))

UserFind(id) == UserFindIn(load_user(id))

\* A create that saves a Renamed event in place of the Created one.
OrgCreateEventsRenamed(data) ==
    <<OrgAggregate(OrganizationId(data[1]), Renamed(data[1]))>>

\* The events create hands to save.
OrgCreateEvents(data) == <<OrgCreated(OrganizationId(data[1]), data)>>

\* A create that tags the Created event with the counter's value before the
\* increment.
UserCreateEventsStaleId(id, data) == <<UserCreated(id - 1, data)>>

UserCreateEvents(id, data) == <<UserCreated(id, data)>>

\* What create returns: the id, or the store's error wrapped.
OrgCreateResult(data) ==
    IF SaveResult.res = "Ok" THEN [res |-> "Ok", org_id |-> OrganizationId(data[1])]
    ELSE StoreError

UserCreateResult(id) ==
    IF SaveResult.res = "Ok" THEN [res |-> "Ok", user_id |-> id] ELSE StoreError

\* OrganizationCollection::create
org_create(data) ==
    /\ pc = "ready"
    /\ Fits(1)
    /\ org_uncommitted_events' = SaveBuffer(org_uncommitted_events, OrgCreateEvents(data))
    /\ op' = CalledWith("org_create", data)
    /\ ret' = OrgCreateResult(data)
    /\ UNCHANGED <<org_events, user_events, user_uncommitted_events, in_transaction,
                   length, broker_faulty, limit, uc, orders, test_store, pc, commit_vars>>

\* A create that moves the counter only when save has taken the event.
user_create_counting_saved(data) ==
    /\ pc = "ready"
    /\ Fits(1)
    /\ length < MaxUserId
    /\ length' = IF in_transaction THEN length + 1 ELSE length
    /\ user_uncommitted_events' =
          SaveBuffer(user_uncommitted_events, UserCreateEvents(UserId(length + 1), data))
    /\ op' = CalledWith("user_create", data)
    /\ ret' = UserCreateResult(UserId(length + 1))
    /\ UNCHANGED <<org_events, org_uncommitted_events, user_events, in_transaction,
                   broker_faulty, limit, uc, orders, test_store, pc, commit_vars>>

\* UserCollection::create: the counter moves before save is tried.
user_create(data) ==
    /\ pc = "ready"
    /\ Fits(1)
    /\ length < MaxUserId
    /\ length' = length + 1
    /\ user_uncommitted_events' =
          SaveBuffer(user_uncommitted_events, UserCreateEvents(UserId(length + 1), data))
    /\ op' = CalledWith("user_create", data)
    /\ ret' = UserCreateResult(UserId(length + 1))
    /\ UNCHANGED <<org_events, org_uncommitted_events, user_events, in_transaction,
                   broker_faulty, limit, uc, orders, test_store, pc, commit_vars>>

\* A handle_command that tags the events with the organization's name, not its id.
OrgCommandEventsByName(id, command) ==
    LET found == OrgFind(id) IN
    IF found.res = "Err" \/ ~found.some THEN <<>>
    ELSE LET handled == OrgHandle(found.aggregate, command) IN
         IF handled.res = "Err" THEN <<>>
         ELSE [i \in 1..Len(handled.events) |->
                  OrgAggregate(OrganizationId(found.aggregate.name), handled.events[i])]

\* The events handle_command hands to save: none when find or the aggregate fails.
OrgCommandEvents(id, command) ==
    LET found == OrgFind(id) IN
    IF found.res = "Err" \/ ~found.some THEN <<>>
    ELSE LET handled == OrgHandle(found.aggregate, command) IN
         IF handled.res = "Err" THEN <<>>
         ELSE [i \in 1..Len(handled.events) |-> OrgAggregate(id, handled.events[i])]

\* A handle_command that answers Success for an aggregate find did not return.
OrgCommandResultUnfound(id, command) ==
    LET found == OrgFind(id) IN
    IF found.res = "Err" THEN found
    ELSE IF ~found.some THEN Success
    ELSE LET handled == OrgHandle(found.aggregate, command) IN
         IF handled.res = "Err" THEN Wrapped(handled)
         ELSE IF SaveResult.res = "Err" THEN StoreError
         ELSE Success

\* OrganizationCollection::handle_command's return value
OrgCommandResult(id, command) ==
    LET found == OrgFind(id) IN
    IF found.res = "Err" THEN found
    ELSE IF ~found.some THEN NotFound(id)
    ELSE LET handled == OrgHandle(found.aggregate, command) IN
         IF handled.res = "Err" THEN Wrapped(handled)
         ELSE IF SaveResult.res = "Err" THEN StoreError
         ELSE Success

\* Whether handle_command reaches store.save
OrgCommandSaves(id, command) ==
    LET found == OrgFind(id) IN
    /\ found.res = "Ok"
    /\ found.some
    /\ OrgHandle(found.aggregate, command).res = "Ok"

org_handle_command(id, command) ==
    /\ pc = "ready"
    /\ Fits(Len(OrgCommandEvents(id, command)))
    /\ org_uncommitted_events' =
          IF OrgCommandSaves(id, command)
          THEN SaveBuffer(org_uncommitted_events, OrgCommandEvents(id, command))
          ELSE org_uncommitted_events
    /\ op' = CalledCommand("org_handle_command", id, command)
    /\ ret' = OrgCommandResult(id, command)
    /\ UNCHANGED <<org_events, user_events, user_uncommitted_events, in_transaction,
                   length, broker_faulty, limit, uc, orders, test_store, pc, commit_vars>>

UserCommandEvents(id, command) ==
    LET found == UserFind(id) IN
    IF found.res = "Err" \/ ~found.some THEN <<>>
    ELSE LET handled == UserHandle(found.aggregate, command) IN
         IF handled.res = "Err" THEN <<>>
         ELSE [i \in 1..Len(handled.events) |-> UserAggregate(id, handled.events[i])]

UserCommandResult(id, command) ==
    LET found == UserFind(id) IN
    IF found.res = "Err" THEN found
    ELSE IF ~found.some THEN NotFound(id)
    ELSE LET handled == UserHandle(found.aggregate, command) IN
         IF handled.res = "Err" THEN Wrapped(handled)
         ELSE IF SaveResult.res = "Err" THEN StoreError
         ELSE Success

UserCommandSaves(id, command) ==
    LET found == UserFind(id) IN
    /\ found.res = "Ok"
    /\ found.some
    /\ UserHandle(found.aggregate, command).res = "Ok"

user_handle_command(id, command) ==
    /\ pc = "ready"
    /\ Fits(Len(UserCommandEvents(id, command)))
    /\ user_uncommitted_events' =
          IF UserCommandSaves(id, command)
          THEN SaveBuffer(user_uncommitted_events, UserCommandEvents(id, command))
          ELSE user_uncommitted_events
    /\ op' = CalledCommand("user_handle_command", id, command)
    /\ ret' = UserCommandResult(id, command)
    /\ UNCHANGED <<org_events, org_uncommitted_events, user_events, in_transaction,
                   length, broker_faulty, limit, uc, orders, test_store, pc, commit_vars>>

(***************************************************************************)
(* user_add_usecase: one transaction around reserve, create and AddUser.    *)
(***************************************************************************)
\* Err(format!("{:?}", e)) of a collection's error
UsecaseError(e) == [res |-> "Err", err |-> "Usecase", of |-> e]

\* The arguments of the running call, as op records them.
UsecaseCall == CalledWith("user_add_usecase", <<uc.name, uc.email, uc.org_id>>)

\* The call and event_store.begin(), which never fails.  durable_at_call keeps
\* the durable logs the call started from.
uc_call(name, email, org_id) ==
    /\ pc = "ready"
    /\ in_transaction' = TRUE
    /\ uc' = [running |-> TRUE, name |-> name, email |-> email, org_id |-> org_id,
              uo_id |-> "", user_id |-> 0,
              durable_at_call |-> <<org_events, user_events>>]
    /\ pc' = "uc_reserve"
    /\ op' = CalledWith("user_add_usecase", <<name, email, org_id>>)
    /\ ret' = Running
    /\ UNCHANGED <<org_events, org_uncommitted_events, user_events,
                   user_uncommitted_events, length, broker_faulty, limit, orders, test_store,
                   commit_vars>>

\* A reserve step with a transaction of its own: the reservation is committed
\* before the create step runs.
uc_reserve_committing ==
    LET command == CmdUserReserve(uc.name)
        result == OrgCommandResult(uc.org_id, command)
    IN /\ pc = "uc_reserve"
       /\ Fits(Len(OrgCommandEvents(uc.org_id, command)))
       /\ org_events' =
             IF OrgCommandSaves(uc.org_id, command)
             THEN DrainInto(org_events,
                            BufferAll(EmptyMap, OrgCommandEvents(uc.org_id, command)))
             ELSE org_events
       /\ IF result.res = "Ok"
          THEN /\ uc' = [uc EXCEPT !.uo_id = UserOrganizationId(Format(uc.org_id, uc.name))]
               /\ pc' = "uc_create"
               /\ UNCHANGED <<in_transaction, ret>>
          ELSE /\ in_transaction' = FALSE
               /\ uc' = NoUsecase
               /\ pc' = "ready"
               /\ ret' = UsecaseError(result)
       /\ UNCHANGED <<org_uncommitted_events, user_events, user_uncommitted_events,
                      length, broker_faulty, limit, orders, test_store, commit_vars, op>>

\* handle_command(org_id, UserReserve(name)); on Err, rollback and return.
uc_reserve ==
    LET command == CmdUserReserve(uc.name)
        result == OrgCommandResult(uc.org_id, command)
    IN /\ pc = "uc_reserve"
       /\ Fits(Len(OrgCommandEvents(uc.org_id, command)))
       /\ org_uncommitted_events' =
             IF OrgCommandSaves(uc.org_id, command)
             THEN SaveBuffer(org_uncommitted_events,
                             OrgCommandEvents(uc.org_id, command))
             ELSE org_uncommitted_events
       /\ IF result.res = "Ok"
          THEN /\ uc' = [uc EXCEPT !.uo_id = UserOrganizationId(Format(uc.org_id, uc.name))]
               /\ pc' = "uc_create"
               /\ UNCHANGED <<in_transaction, ret>>
          ELSE /\ in_transaction' = FALSE
               /\ uc' = NoUsecase
               /\ pc' = "ready"
               /\ ret' = UsecaseError(result)
       /\ UNCHANGED <<org_events, user_events, user_uncommitted_events, length,
                      broker_faulty, limit, orders, test_store, commit_vars, op>>

\* user_collection.create((name, email, org_id, uo_id)); on Err, rollback and
\* return.
uc_create ==
    LET data == <<uc.name, uc.email, uc.org_id, uc.uo_id>>
        id == UserId(length + 1)
        result == UserCreateResult(id)
    IN /\ pc = "uc_create"
       /\ Fits(1)
       /\ length' = length + 1
       /\ user_uncommitted_events' =
             SaveBuffer(user_uncommitted_events, UserCreateEvents(id, data))
       /\ IF result.res = "Ok"
          THEN /\ uc' = [uc EXCEPT !.user_id = result.user_id]
               /\ pc' = "uc_add_user"
               /\ UNCHANGED <<in_transaction, ret>>
          ELSE /\ in_transaction' = FALSE
               /\ uc' = NoUsecase
               /\ pc' = "ready"
               /\ ret' = UsecaseError(result)
       /\ UNCHANGED <<org_events, org_uncommitted_events, user_events, broker_faulty,
                      limit, orders, test_store, commit_vars, op>>

\* An AddUser step that returns the error without calling rollback.
uc_add_user_unrolled ==
    LET command == CmdAddUser(uc.user_id, uc.uo_id)
        result == OrgCommandResult(uc.org_id, command)
    IN /\ pc = "uc_add_user"
       /\ Fits(Len(OrgCommandEvents(uc.org_id, command)))
       /\ org_uncommitted_events' =
             IF OrgCommandSaves(uc.org_id, command)
             THEN SaveBuffer(org_uncommitted_events,
                             OrgCommandEvents(uc.org_id, command))
             ELSE org_uncommitted_events
       /\ IF result.res = "Ok"
          THEN /\ pc' = "uc_commit"
               /\ UNCHANGED <<ret, uc>>
          ELSE /\ uc' = NoUsecase
               /\ pc' = "ready"
               /\ ret' = UsecaseError(result)
       /\ UNCHANGED <<org_events, user_events, user_uncommitted_events, length,
                      in_transaction, broker_faulty, limit, orders, test_store, commit_vars, op>>

\* handle_command(org_id, AddUser(user_id, uo_id)); on Err, rollback and
\* return.
uc_add_user ==
    LET command == CmdAddUser(uc.user_id, uc.uo_id)
        result == OrgCommandResult(uc.org_id, command)
    IN /\ pc = "uc_add_user"
       /\ Fits(Len(OrgCommandEvents(uc.org_id, command)))
       /\ org_uncommitted_events' =
             IF OrgCommandSaves(uc.org_id, command)
             THEN SaveBuffer(org_uncommitted_events,
                             OrgCommandEvents(uc.org_id, command))
             ELSE org_uncommitted_events
       /\ IF result.res = "Ok"
          THEN /\ pc' = "uc_commit"
               /\ UNCHANGED <<in_transaction, ret, uc>>
          ELSE /\ in_transaction' = FALSE
               /\ uc' = NoUsecase
               /\ pc' = "ready"
               /\ ret' = UsecaseError(result)
       /\ UNCHANGED <<org_events, user_events, user_uncommitted_events, length,
                      broker_faulty, limit, orders, test_store, commit_vars, op>>

\* Ok(()) after event_store.commit() has returned.
uc_return ==
    /\ pc = "uc_return"
    /\ pc' = "ready"
    /\ op' = UsecaseCall
    /\ ret' = Ok
    /\ uc' = NoUsecase
    /\ UNCHANGED <<store_vars, length, broker_faulty, limit, orders, test_store, commit_vars>>

(***************************************************************************)
(* Inputs of the model and the specifications.                             *)
(***************************************************************************)
\* Events a caller hands to save directly.
OrgSaveEvents == {OrgDeleted("a"), OrgAggregate("b", Renamed("a"))}
UserSaveEvents == {UserDeleted(1), UserAggregate(2, EmailChanged("f"))}

Batches(S) ==
    {<<>>} \cup {<<e>> : e \in S} \cup {<<p[1], p[2]>> : p \in {q \in S \X S : q[1] # q[2]}}

OrgData == {<<n, c>> : n \in {"a"}, c \in Caps}
UserData == {<<n, e, o, Format(o, n)>> : n \in UserNames, e \in Emails, o \in {"a"}}
OrgCommands == {CmdRename("b"), CmdAddUser(1, "a-u"), CmdRemoveUser(1)}
UserCommands == {CmdChangeEmail("f")}

Next ==
    \/ begin
    \/ commit
    \/ commit_publish_org
    \/ commit_publish_user
    \/ commit_return
    \/ rollback
    \/ \E events \in Batches(OrgSaveEvents) : save_org(events)
    \/ \E events \in Batches(UserSaveEvents) : save_user(events)
    \/ \E data \in OrgData : org_create(data)
    \/ \E data \in UserData : user_create(data)
    \/ \E id \in OrgNames : \E command \in OrgCommands : org_handle_command(id, command)
    \/ \E id \in UserIds : \E command \in UserCommands : user_handle_command(id, command)

Spec == Init /\ [][Next]_vars

SpecFaulty == InitFaulty /\ [][Next]_vars

(***************************************************************************)
(* Properties.                                                             *)
(***************************************************************************)
IsPrefix(s, t) == Len(s) <= Len(t) /\ SubSeq(t, 1, Len(s)) = s
IsSuffix(s, t) == Len(s) <= Len(t) /\ SubSeq(t, Len(t) - Len(s) + 1, Len(t)) = s

\* The step that enters commit.
CommitStep == pc = "ready" /\ pc' = "commit_publish"

\* Every buffer entry is non-empty and holds events of its own key only.
FiledById(m) ==
    \A id \in DOMAIN m :
        m[id] # <<>> /\ \A i \in 1..Len(m[id]) : aggregate_id(m[id][i]) = id

\* The new map keeps every entry of the old one as a prefix.
OnlyAdds(old, new) ==
    DOMAIN old \subseteq DOMAIN new /\ \A id \in DOMAIN old : IsPrefix(old[id], new[id])

\* The new durable map is the old one with the buffer of every id appended.
Appended(old, buffer, new) ==
    /\ DOMAIN new = DOMAIN old \cup DOMAIN buffer
    /\ \A id \in DOMAIN new : new[id] = GetOrDefault(old, id) \o GetOrDefault(buffer, id)

\* C1: once rollback() has returned, the per-transaction buffers of every
\* organization id and every user id are empty (so that nothing saved in the
\* rolled-back transaction can reach a durable log later).
C1_RollbackEmptiesBuffers ==
    op.name = "rollback" =>
        org_uncommitted_events = EmptyMap /\ user_uncommitted_events = EmptyMap

\* C2: commit() appends to the durable log of every id exactly the events
\* buffered for it, in buffer order, leaves the logs of the other ids as they
\* were, empties the buffers and leaves the transaction; the publish loops and
\* the return that follow change none of this.
C2_CommitAppendsBuffers ==
    [][ /\ CommitStep =>
            /\ Appended(org_events, org_uncommitted_events, org_events')
            /\ Appended(user_events, user_uncommitted_events, user_events')
            /\ org_uncommitted_events' = EmptyMap
            /\ user_uncommitted_events' = EmptyMap
            /\ in_transaction' = FALSE
        /\ pc = "commit_publish" => UNCHANGED store_vars ]_vars

\* C2 witness: a commit of two ids, one of which already had a durable log.
C2_Witness ==
    /\ pc = "commit_publish"
    /\ published = <<>>
    /\ DOMAIN user_event_to_publish # {}
    /\ \E id \in DOMAIN org_event_to_publish :
          Len(org_events[id]) > Len(org_event_to_publish[id])

\* C3: load(id) returns the durable log of id, and neither it nor find(id)
\* changes in a step that leaves the durable logs as they are: saved but
\* uncommitted events are visible to neither.
C3_NoDirtyReads ==
    /\ [](\A id \in OrgNames : load_org(id) = GetOrDefault(org_events, id))
    /\ [](\A id \in UserIds : load_user(id) = GetOrDefault(user_events, id))
    /\ [][ /\ org_events' = org_events =>
                \A id \in OrgNames :
                    load_org(id)' = load_org(id) /\ OrgFind(id)' = OrgFind(id)
           /\ user_events' = user_events =>
                \A id \in UserIds :
                    load_user(id)' = load_user(id) /\ UserFind(id)' = UserFind(id)
       ]_vars

\* C3 witness: an organization is found while events are buffered for it that
\* would change what find returns.
C3_Witness ==
    \E id \in DOMAIN org_events \cap DOMAIN org_uncommitted_events :
        /\ in_transaction
        /\ OrgFind(id).res = "Ok"
        /\ OrgFind(id).some
        /\ OrgFindIn(org_events[id] \o org_uncommitted_events[id]) # OrgFind(id)

\* C4: a step changes a durable log only if it is the step that enters
\* commit(): begin, save, rollback, create and handle_command leave every
\* organization log and every user log as it was.
C4_DurableChangesOnlyInCommit ==
    [][ (org_events' # org_events \/ user_events' # user_events) =>
            (CommitStep /\ op'.name = "commit") ]_vars

\* C4 witness: a save has succeeded for an id that has a durable log.
C4_Witness ==
    /\ op.name = "save_org"
    /\ ret = Ok
    /\ DOMAIN org_events \cap DOMAIN org_uncommitted_events # {}

\* C5: begin() called while a transaction is Active returns an error and
\* leaves the transaction state and the buffers unchanged.
C5_BeginWhileActiveFails ==
    [][ (in_transaction /\ op'.name = "begin") =>
            /\ ret'.res = "Err"
            /\ UNCHANGED <<in_transaction, org_uncommitted_events,
                           user_uncommitted_events>> ]_vars

\* The events of a batch that belong to one id, in the batch's order.
RECURSIVE OfId(_, _)
OfId(events, id) ==
    IF events = <<>> THEN <<>>
    ELSE IF aggregate_id(Head(events)) = id
         THEN <<Head(events)>> \o OfId(Tail(events), id)
         ELSE OfId(Tail(events), id)

\* The new buffers are the old ones with some batch filed id by id, in order.
Filed(old, new, batches, ids) ==
    \E events \in batches :
        \A id \in ids : GetOrDefault(new, id) = GetOrDefault(old, id) \o OfId(events, id)

\* C6: save outside a transaction returns the NotInTransaction error and
\* changes no buffer and no durable log; inside a transaction it returns Ok,
\* changes no durable log and only adds to the buffers of its own kind, every
\* buffered event filed under the id its aggregate_id() returns, at the end
\* of that id's buffer and in the order of the saved events.
C6_SaveBuffersOnlyInTransaction ==
    [][ op'.name \in {"save_org", "save_user"} =>
            /\ UNCHANGED <<org_events, user_events, in_transaction>>
            /\ op'.name = "save_org" => UNCHANGED user_uncommitted_events
            /\ op'.name = "save_user" => UNCHANGED org_uncommitted_events
            /\ ~in_transaction =>
                  /\ ret' = NotInTransaction
                  /\ UNCHANGED <<org_uncommitted_events, user_uncommitted_events>>
            /\ in_transaction =>
                  /\ ret' = Ok
                  /\ OnlyAdds(org_uncommitted_events, org_uncommitted_events')
                  /\ OnlyAdds(user_uncommitted_events, user_uncommitted_events')
                  /\ FiledById(org_uncommitted_events')
                  /\ FiledById(user_uncommitted_events')
                  /\ op'.name = "save_org" =>
                        Filed(org_uncommitted_events, org_uncommitted_events',
                              Batches(OrgSaveEvents), OrgNames)
                  /\ op'.name = "save_user" =>
                        Filed(user_uncommitted_events, user_uncommitted_events',
                              Batches(UserSaveEvents),
                              UserIds \cup {aggregate_id(e) : e \in UserSaveEvents}) ]_vars

\* C6 witness: a successful save has left events buffered under two ids.
C6_Witness ==
    /\ op.name = "save_org"
    /\ ret = Ok
    /\ Cardinality(DOMAIN org_uncommitted_events) = 2

\* C7: commit() and rollback() called while Idle return an error and change
\* neither the durable logs nor the buffers.
C7_IdleCommitRollbackFail ==
    [][ (~in_transaction /\ pc = "ready" /\ op'.name \in {"commit", "rollback"}) =>
            /\ ret'.res = "Err"
            /\ UNCHANGED <<org_events, user_events, org_uncommitted_events,
                           user_uncommitted_events>> ]_vars

\* The batches of the ids a publish loop has visited.
Visited(to_publish, iter) == DOMAIN to_publish \ iter

PublishedOnce(kind, batch) ==
    Cardinality({i \in 1..Len(published) :
                    published[i].kind = kind /\ published[i].events = batch}) = 1

\* C8: while commit() publishes, the durable log of every touched id already
\* ends with its batch; the broker has received exactly one call per visited
\* id, with that id's whole batch; commit() returns only when every id that
\* had buffered events has been visited; and nothing is published outside
\* commit() (not by rollback, and no batch is empty).
C8_PublishOncePerIdAfterCommit ==
    /\ [](pc = "commit_publish" =>
            /\ \A id \in DOMAIN org_event_to_publish :
                  IsSuffix(org_event_to_publish[id], load_org(id))
            /\ \A id \in DOMAIN user_event_to_publish :
                  IsSuffix(user_event_to_publish[id], load_user(id))
            /\ FiledById(org_event_to_publish)
            /\ FiledById(user_event_to_publish)
            /\ Len(published) = Cardinality(Visited(org_event_to_publish, org_iter))
                                + Cardinality(Visited(user_event_to_publish, user_iter))
            /\ \A id \in Visited(org_event_to_publish, org_iter) :
                  PublishedOnce("org", org_event_to_publish[id])
            /\ \A id \in Visited(user_event_to_publish, user_iter) :
                  PublishedOnce("user", user_event_to_publish[id]))
    /\ [][ /\ CommitStep =>
                /\ org_event_to_publish' = org_uncommitted_events
                /\ user_event_to_publish' = user_uncommitted_events
                /\ org_iter' = DOMAIN org_uncommitted_events
                /\ user_iter' = DOMAIN user_uncommitted_events
                /\ published' = <<>>
           /\ (pc = "commit_publish" /\ pc' = "ready") =>
                (org_iter = {} /\ user_iter = {})
           /\ published' # published => (pc = "commit_publish" \/ CommitStep)
       ]_vars

\* C8 witness: a commit has published the batches of an organization and of a
\* user, one of them of two events.
C8_Witness ==
    /\ pc = "commit_publish"
    /\ org_iter = {}
    /\ user_iter = {}
    /\ DOMAIN org_event_to_publish # {}
    /\ DOMAIN user_event_to_publish # {}
    /\ \E i \in 1..Len(published) : Len(published[i].events) = 2

\* C9: when a publish fails inside commit(), the events of the transaction
\* are in the durable logs of every touched id, the buffers are empty and the
\* store is Idle.
C9_PublishFailureKeepsCommit ==
    pc = "panicked" =>
        /\ \A id \in DOMAIN org_event_to_publish :
              IsSuffix(org_event_to_publish[id], load_org(id))
        /\ \A id \in DOMAIN user_event_to_publish :
              IsSuffix(user_event_to_publish[id], load_user(id))
        /\ org_uncommitted_events = EmptyMap
        /\ user_uncommitted_events = EmptyMap
        /\ in_transaction = FALSE

\* C9 witness: a publish has failed in a commit that touched an organization
\* and a user, before every batch was published.
C9_Witness ==
    /\ pc = "panicked"
    /\ DOMAIN org_event_to_publish # {}
    /\ user_iter # {}

\* C10: create inside a transaction returns the id and appends to the buffer
\* of that id exactly one Created event, tagged with the id and carrying the
\* data; outside a transaction it returns the Store error of NotInTransaction
\* and buffers nothing.  It changes nothing else of the store.
C10_CreateBuffersOneCreated ==
    [][ /\ op'.name = "org_create" =>
            /\ UNCHANGED <<org_events, user_events, user_uncommitted_events,
                           in_transaction>>
            /\ IF in_transaction
               THEN /\ ret'.res = "Ok"
                    /\ ret'.org_id = OrganizationId(op'.data[1])
                    /\ org_uncommitted_events' =
                          EntryPush(org_uncommitted_events, ret'.org_id,
                                    [k |-> "Created", id |-> ret'.org_id,
                                     name |-> op'.data[1], max_users |-> op'.data[2]])
               ELSE /\ ret' = StoreError
                    /\ UNCHANGED org_uncommitted_events
        /\ op'.name = "user_create" =>
            /\ UNCHANGED <<org_events, user_events, org_uncommitted_events,
                           in_transaction>>
            /\ IF in_transaction
               THEN /\ ret'.res = "Ok"
                    /\ user_uncommitted_events' =
                          EntryPush(user_uncommitted_events, ret'.user_id,
                                    [k |-> "Created", id |-> ret'.user_id,
                                     name |-> op'.data[1], email |-> op'.data[2],
                                     organization_id |-> op'.data[3],
                                     uo_id |-> op'.data[4]])
               ELSE /\ ret' = StoreError
                    /\ UNCHANGED user_uncommitted_events ]_vars

\* C10 witness: create has succeeded for an id that had an event buffered.
C10_Witness ==
    /\ op.name = "org_create"
    /\ ret.res = "Ok"
    /\ Len(org_uncommitted_events[ret.org_id]) = 2

(***************************************************************************)
(* The collections over arbitrary durable logs: every log of at most       *)
(* MaxLogLen events can be made durable through save and commit, so find    *)
(* and handle_command are explored from each of them.                       *)
(***************************************************************************)
\* Longest durable log the exploration starts from.
MaxLogLen == 3
\* Events the transactions of the exploration may buffer on top of the log.
MaxBuffered == 1

SeqsUpTo(S, n) == UNION {[1..k -> S] : k \in 0..n}

OrgLogEvents ==
    {OrgCreated("a", <<"a", 1>>), OrgCreated("a", <<"b", 2>>),
     OrgAggregate("a", Renamed("b")), OrgAggregate("a", UserAdded(1, "a-u")),
     OrgAggregate("a", UserRemoved(1)), OrgDeleted("a")}
UserLogEvents ==
    {UserCreated(1, <<"u", "e", "a", "a-u">>), UserAggregate(1, EmailChanged("f")),
     UserAggregate(1, Renamed("v")), UserDeleted(1)}

\* The durable map that holds log under id, or no key for the empty log.
LogOf(id, log) == IF log = <<>> THEN EmptyMap ELSE [x \in {id} |-> log]

\* One collection has a log, the other is empty.
DurableLogs ==
    {<<o, <<>>>> : o \in SeqsUpTo(OrgLogEvents, MaxLogLen)}
        \cup {<<<<>>, u>> : u \in SeqsUpTo(UserLogEvents, MaxLogLen)}

InitCollection ==
    /\ \E logs \in DurableLogs :
          /\ org_events = LogOf("a", logs[1])
          /\ user_events = LogOf(1, logs[2])
    /\ org_uncommitted_events = EmptyMap
    /\ user_uncommitted_events = EmptyMap
    /\ in_transaction = FALSE
    /\ length = 1
    /\ broker_faulty = FALSE
    /\ pc = "ready"
    /\ org_event_to_publish = EmptyMap
    /\ user_event_to_publish = EmptyMap
    /\ org_iter = {}
    /\ user_iter = {}
    /\ published = <<>>
    /\ op = Called("new")
    /\ ret = Ok
    /\ limit = MaxLogLen + MaxBuffered
    /\ uc = NoUsecase
    /\ orders = EmptyMap
    /\ test_store = TestStoreNew

\* A call of OrganizationCollection::find; it changes nothing.
org_find(id) ==
    /\ pc = "ready"
    /\ op' = CalledOn("org_find", id)
    /\ ret' = OrgFind(id)
    /\ UNCHANGED <<store_vars, length, broker_faulty, limit, uc, orders, test_store, pc, commit_vars>>

\* A call of UserCollection::find; it changes nothing.
user_find(id) ==
    /\ pc = "ready"
    /\ op' = CalledOn("user_find", id)
    /\ ret' = UserFind(id)
    /\ UNCHANGED <<store_vars, length, broker_faulty, limit, uc, orders, test_store, pc, commit_vars>>

CollectionOrgCommands ==
    {CmdRename("b"), CmdUserReserve("u"), CmdAddUser(1, "a-u"), CmdRemoveUser(1)}
CollectionUserCommands == {CmdChangeEmail("f"), CmdRename("v")}

NextCollection ==
    \/ begin
    \/ rollback
    \/ \E id \in OrgNames : org_find(id)
    \/ \E id \in UserIds : user_find(id)
    \/ \E id \in OrgNames, command \in CollectionOrgCommands :
          org_handle_command(id, command)
    \/ \E id \in UserIds, command \in CollectionUserCommands :
          user_handle_command(id, command)

SpecCollection == InitCollection /\ [][NextCollection]_vars

\* The aggregate after every Aggregate event of events is applied in order;
\* events of any other kind are stepped over.
RECURSIVE OrgReplay(_, _)
OrgReplay(aggregate, events) ==
    IF events = <<>> THEN aggregate
    ELSE OrgReplay(IF Head(events).k = "Aggregate"
                   THEN OrgApplyEvent(aggregate, Head(events).ev) ELSE aggregate,
                   Tail(events))

RECURSIVE UserReplay(_, _)
UserReplay(aggregate, events) ==
    IF events = <<>> THEN aggregate
    ELSE UserReplay(IF Head(events).k = "Aggregate"
                    THEN UserApplyEvent(aggregate, Head(events).ev) ELSE aggregate,
                    Tail(events))

HasDeleted(events) == \E i \in 1..Len(events) : events[i].k = "Deleted"

\* The aggregate of the Created payload that heads log, with the rest replayed.
OrgReplayed(log) ==
    Some(OrgReplay(NewOrganization(log[1].name, log[1].max_users), Tail(log)))
UserReplayed(log) ==
    Some(UserReplay(NewUser(log[1].name, log[1].email, log[1].organization_id,
                            log[1].uo_id), Tail(log)))

\* C11 as stated: find yields none on an empty log, InvalidEvent of the first
\* event when that is not Created, and otherwise always the aggregate of the
\* Created payload with every Aggregate event of the remainder applied in order.
C11_FindAlwaysReplays ==
    /\ op.name = "org_find" =>
          LET log == load_org(op.id) IN
          ret = IF log = <<>> THEN None
                ELSE IF log[1].k # "Created" THEN InvalidEvent(log[1])
                ELSE OrgReplayed(log)
    /\ op.name = "user_find" =>
          LET log == load_user(op.id) IN
          ret = IF log = <<>> THEN None
                ELSE IF log[1].k # "Created" THEN InvalidEvent(log[1])
                ELSE UserReplayed(log)

\* C11: find yields none on an empty log and InvalidEvent of the first event
\* when that is not Created; otherwise it yields none when a Deleted event
\* follows the first, and else the aggregate of the Created payload with every
\* Aggregate event of the remainder applied in log order.
C11_FindReplaysUnlessDeleted ==
    /\ op.name = "org_find" =>
          LET log == load_org(op.id) IN
          ret = IF log = <<>> THEN None
                ELSE IF log[1].k # "Created" THEN InvalidEvent(log[1])
                ELSE IF HasDeleted(Tail(log)) THEN None
                ELSE OrgReplayed(log)
    /\ op.name = "user_find" =>
          LET log == load_user(op.id) IN
          ret = IF log = <<>> THEN None
                ELSE IF log[1].k # "Created" THEN InvalidEvent(log[1])
                ELSE IF HasDeleted(Tail(log)) THEN None
                ELSE UserReplayed(log)

\* C11 witness: find has returned an organization whose name and users both
\* come from Aggregate events after the Created one.
C11_Witness ==
    /\ op.name = "org_find"
    /\ Len(load_org(op.id)) = 3
    /\ ret.res = "Ok"
    /\ ret.some
    /\ ret.aggregate.name = "b"
    /\ ret.aggregate.max_users = 1
    /\ DOMAIN ret.aggregate.users = {1}

\* C12 as stated: a durable log with a Deleted event at any position makes
\* find return none, never an error and never an aggregate.
C12_DeletedAnywhereYieldsNone ==
    /\ (op.name = "org_find" /\ HasDeleted(load_org(op.id))) => ret = None
    /\ (op.name = "user_find" /\ HasDeleted(load_user(op.id))) => ret = None

\* C12: a durable log whose first event is Created and that has a Deleted
\* event at a later position makes find return none, whatever events follow
\* the Deleted one.
C12_DeletedAfterCreatedYieldsNone ==
    /\ ( /\ op.name = "org_find"
         /\ load_org(op.id) # <<>>
         /\ Head(load_org(op.id)).k = "Created"
         /\ HasDeleted(Tail(load_org(op.id))) ) => ret = None
    /\ ( /\ op.name = "user_find"
         /\ load_user(op.id) # <<>>
         /\ Head(load_user(op.id)).k = "Created"
         /\ HasDeleted(Tail(load_user(op.id))) ) => ret = None

\* C12 witness: find has returned none for a log of Created, Deleted and an
\* Aggregate event after the tombstone.
C12_Witness ==
    /\ op.name = "org_find"
    /\ Len(load_org(op.id)) = 3
    /\ load_org(op.id)[1].k = "Created"
    /\ load_org(op.id)[2].k = "Deleted"
    /\ load_org(op.id)[3].k = "Aggregate"
    /\ ret = None

\* A log with no aggregate to find: empty, or Created first and Deleted later.
Tombstoned(log) == log # <<>> /\ Head(log).k = "Created" /\ HasDeleted(Tail(log))
EmptyOrTombstoned(log) == log = <<>> \/ Tombstoned(log)

\* C13: handle_command(id, command) on an id whose durable log is empty or
\* tombstoned returns NotFound(id) and changes nothing of the store: no buffer
\* gains an event.
C13_NotFoundSendsNothing ==
    [][ /\ ( /\ op'.name = "org_handle_command"
             /\ EmptyOrTombstoned(load_org(op'.id)) ) =>
                /\ ret' = NotFound(op'.id)
                /\ UNCHANGED store_vars
        /\ ( /\ op'.name = "user_handle_command"
             /\ EmptyOrTombstoned(load_user(op'.id)) ) =>
                /\ ret' = NotFound(op'.id)
                /\ UNCHANGED store_vars ]_vars

\* C13 witness: inside a transaction, handle_command has returned NotFound for
\* a tombstoned organization.
C13_Witness ==
    /\ op.name = "org_handle_command"
    /\ in_transaction
    /\ Tombstoned(load_org(op.id))
    /\ ret = NotFound(op.id)

\* The domain error the organization found for id answers command with, or
\* "none": MaxUsersReached for AddUser at the cap, UserNotFound for RemoveUser
\* of a user that is not in users.
OrgDomainError(id, command) ==
    LET found == OrgFind(id) IN
    IF found.res = "Err" \/ ~found.some THEN "none"
    ELSE IF /\ command.c = "AddUser"
            /\ Cardinality(DOMAIN found.aggregate.users) >= found.aggregate.max_users
         THEN "MaxUsersReached"
    ELSE IF command.c = "RemoveUser" /\ command.user \notin DOMAIN found.aggregate.users
         THEN "UserNotFound"
    ELSE "none"

\* C14: when the aggregate answers the command with a domain error,
\* handle_command returns that error and changes nothing of the store: no
\* event is buffered, the durable logs stay, and in_transaction keeps its
\* value, so an Active transaction stays Active with its buffered events.
C14_DomainErrorLeavesTransaction ==
    [][ ( /\ op'.name = "org_handle_command"
          /\ OrgDomainError(op'.id, op'.command) # "none" ) =>
             /\ ret' = [res |-> "Err", err |-> "Aggregate",
                        of |-> OrgDomainError(op'.id, op'.command)]
             /\ UNCHANGED store_vars ]_vars

\* C14 witness: inside a transaction with an event buffered, AddUser on a full
\* organization has returned MaxUsersReached.
C14_Witness ==
    /\ op.name = "org_handle_command"
    /\ op.command.c = "AddUser"
    /\ in_transaction
    /\ TotalLen(org_uncommitted_events) > 0
    /\ ret.res = "Err"
    /\ ret.err = "Aggregate"
    /\ ret.of = "MaxUsersReached"

\* uncommitted' is uncommitted with events appended to the buffer of id, in
\* order, and no other buffer touched.
AppendedTo(uncommitted, after, id, events) ==
    /\ DOMAIN after = DOMAIN uncommitted \cup {id}
    /\ after[id] = GetOrDefault(uncommitted, id) \o events
    /\ \A other \in DOMAIN after \ {id} : after[other] = uncommitted[other]

\* C15: inside an Active transaction, when find(id) returns an aggregate and
\* the aggregate answers the command with events, handle_command returns
\* Success and appends to the buffer of id, and of no other id, exactly those
\* events in their order, each wrapped as an Aggregate event tagged with id.
C15_SuccessAppendsWrappedEvents ==
    [][ /\ ( /\ op'.name = "org_handle_command"
             /\ in_transaction
             /\ OrgFind(op'.id).res = "Ok"
             /\ OrgFind(op'.id).some
             /\ OrgHandle(OrgFind(op'.id).aggregate, op'.command).res = "Ok" ) =>
                LET returned == OrgHandle(OrgFind(op'.id).aggregate, op'.command).events
                IN /\ ret' = [res |-> "Ok", response |-> "Success"]
                   /\ AppendedTo(org_uncommitted_events, org_uncommitted_events', op'.id,
                                 [i \in 1..Len(returned) |->
                                     [k |-> "Aggregate", id |-> op'.id,
                                      ev |-> returned[i]]])
                   /\ UNCHANGED <<org_events, user_events, user_uncommitted_events,
                                  in_transaction>>
        /\ ( /\ op'.name = "user_handle_command"
             /\ in_transaction
             /\ UserFind(op'.id).res = "Ok"
             /\ UserFind(op'.id).some
             /\ UserHandle(UserFind(op'.id).aggregate, op'.command).res = "Ok" ) =>
                LET returned == UserHandle(UserFind(op'.id).aggregate, op'.command).events
                IN /\ ret' = [res |-> "Ok", response |-> "Success"]
                   /\ AppendedTo(user_uncommitted_events, user_uncommitted_events',
                                 op'.id,
                                 [i \in 1..Len(returned) |->
                                     [k |-> "Aggregate", id |-> op'.id,
                                      ev |-> returned[i]]])
                   /\ UNCHANGED <<org_events, user_events, org_uncommitted_events,
                                  in_transaction>> ]_vars

\* C15 witness: inside a transaction, UserReserve has succeeded on a renamed
\* organization whose buffer already held an event.
C15_Witness ==
    /\ op.name = "org_handle_command"
    /\ op.command.c = "UserReserve"
    /\ in_transaction
    /\ ret = Success
    /\ OrgFind(op.id).some
    /\ OrgFind(op.id).aggregate.name # op.id
    /\ Len(org_uncommitted_events[op.id]) = 2
    /\ org_uncommitted_events[op.id][2].ev.t = "UserReserved"

(***************************************************************************)
(* main: an organization is created in a committed transaction and          *)
(* user_add_usecase is called for it, any number of times, between other    *)
(* transactions of the caller.                                              *)
(***************************************************************************)
\* max_users of "Example Corp." in main
MainMaxUsers == 3
\* Events the store may hold: the organization's Created, three committed
\* calls of three events each and the two events a rejected call buffers.
MaxUsecaseEvents == 12

UsecaseOrgData == {<<"a", MainMaxUsers>>}

InitUsecase == Constructed /\ broker_faulty = FALSE /\ limit = MaxUsecaseEvents

NextUsecase ==
    \/ begin
    \/ commit
    \/ commit_publish_org
    \/ commit_publish_user
    \/ commit_return
    \/ rollback
    \/ \E data \in UsecaseOrgData : org_create(data)
    \/ \E name \in UserNames, email \in Emails, org_id \in OrgNames :
          uc_call(name, email, org_id)
    \/ uc_reserve
    \/ uc_create
    \/ uc_add_user
    \/ uc_return

SpecUsecase == InitUsecase /\ [][NextUsecase]_vars

\* How many AddUser commands the organization of log has accepted and
\* committed: the UserAdded events of its durable log.
UserAddedCount(log) ==
    Cardinality({i \in 1..Len(log) : log[i].k = "Aggregate" /\ log[i].ev.t = "UserAdded"})

MaxUsersReachedError ==
    UsecaseError([res |-> "Err", err |-> "Aggregate", of |-> "MaxUsersReached"])

\* C16: an organization created with max_users = 3 accepts the AddUser command
\* of user_add_usecase while fewer than 3 have been accepted, and rejects it
\* with MaxUsersReached once 3 have been; the rejected command buffers
\* nothing and changes no durable log, and the durable log never holds more
\* than 3 UserAdded events.
C16_CapacityBoundary ==
    [][ /\ \A id \in DOMAIN org_events' :
              (OrgFind(id)'.res = "Ok" /\ OrgFind(id)'.some
               /\ OrgFind(id)'.aggregate.max_users = MainMaxUsers)
                 => UserAddedCount(org_events'[id]) <= MainMaxUsers
        /\ ( /\ pc = "uc_add_user"
             /\ pc' # "uc_add_user"
             /\ OrgFind(uc.org_id).res = "Ok"
             /\ OrgFind(uc.org_id).some
             /\ OrgFind(uc.org_id).aggregate.max_users = MainMaxUsers ) =>
                IF UserAddedCount(load_org(uc.org_id)) < MainMaxUsers
                THEN /\ pc' = "uc_commit"
                     /\ AppendedTo(org_uncommitted_events, org_uncommitted_events',
                                   uc.org_id,
                                   <<[k |-> "Aggregate", id |-> uc.org_id,
                                      ev |-> [t |-> "UserAdded", user |-> uc.user_id,
                                              uo |-> uc.uo_id]]>>)
                ELSE /\ pc' = "ready"
                     /\ ret' = MaxUsersReachedError
                     /\ UNCHANGED <<org_events, user_events, org_uncommitted_events,
                                    user_uncommitted_events>> ]_vars

\* C16 witness: with three users added and committed, the fourth call has been
\* rejected with MaxUsersReached and three user logs are durable.
C16_Witness ==
    /\ pc = "ready"
    /\ op.name = "user_add_usecase"
    /\ ret = MaxUsersReachedError
    /\ UserAddedCount(load_org(op.data[3])) = MainMaxUsers
    /\ Cardinality(DOMAIN user_events) = MainMaxUsers

\* The durable logs, as uc.durable_at_call keeps them.
DurableLogsNow == <<org_events, user_events>>

\* The UserReserved event step 1 of the running call hands to save.
ReservedByCall ==
    [k |-> "Aggregate", id |-> uc.org_id,
     ev |-> [t |-> "UserReserved", uo |-> uc.org_id \o "-" \o uc.name]]

C18_ErrorReturnRollsBack ==
    [][ /\ (uc.running /\ ~uc'.running /\ ret'.res = "Err") =>
              /\ pc' = "ready"
              /\ ~in_transaction'
              /\ org_events' = uc.durable_at_call[1]
              /\ user_events' = uc.durable_at_call[2]
              /\ Cardinality(DOMAIN user_events') =
                    Cardinality(DOMAIN uc.durable_at_call[2])
        /\ (uc.running /\ ~uc'.running /\ ret'.res # "Err") => pc = "uc_return" ]_vars

\* C18 witness: a call for an organization that does not exist has failed at
\* the reserve step, leaving the store Idle beside a durable organization.
C18_Witness ==
    /\ pc = "ready"
    /\ op.name = "user_add_usecase"
    /\ ret.res = "Err"
    /\ ret.of.err = "NotFound"
    /\ ~in_transaction
    /\ DOMAIN org_events # {}

(***************************************************************************)
(* Backlog: the Order of src/backlog/tests.rs.  Every instance is kept      *)
(* under its id, with the actions resolve() was called with so far.         *)
(***************************************************************************)
\* How many times resolve() is called on one Order.
MaxResolves == 3

OrderIds == {"order-1", "order-2"}
\* enum OrderStatus, in the order of its definition
OrderStatuses == <<"Pending", "Shipped", "Delivered">>
\* enum OrderAction
OrderActions == {"Ship", "Deliver"}

CreateOrderEvent(id) == [id |-> id]
OrderResolveEvent(id, action) == [id |-> id, data |-> [action |-> action]]

\* A resolve that ships on Deliver and delivers on Ship.
OrderResolveStatusSwapped(action) ==
    CASE action = "Ship" -> "Delivered"
      [] action = "Deliver" -> "Shipped"

\* The match of Order::resolve
OrderResolveStatus(action) ==
    CASE action = "Ship" -> "Shipped"
      [] action = "Deliver" -> "Delivered"

\* Order::status
OrderStatus(order) == order.status

\* What resolve() and status() return: a reference to the status.
StatusRef(status) == [res |-> "Ok", status |-> status]

\* Order::create
order_create(event) ==
    /\ pc = "ready"
    /\ event.id \notin DOMAIN orders
    /\ orders' = Insert(orders, event.id,
                        [id |-> event.id, status |-> "Pending", resolved |-> <<>>])
    /\ op' = CalledOn("order_create", event.id)
    /\ ret' = Ok
    /\ UNCHANGED <<store_vars, length, broker_faulty, limit, uc, test_store, pc,
                   commit_vars>>

\* Order::resolve on the instance kept under id; the event's own id is not read.
order_resolve(id, event) ==
    /\ pc = "ready"
    /\ id \in DOMAIN orders
    /\ Len(orders[id].resolved) < MaxResolves
    /\ orders' = [orders EXCEPT
                    ![id].status = OrderResolveStatus(event.data.action),
                    ![id].resolved = Append(@, event.data.action)]
    /\ op' = CalledCommand("order_resolve", id, event)
    /\ ret' = StatusRef(OrderStatus(orders'[id]))
    /\ UNCHANGED <<store_vars, length, broker_faulty, limit, uc, test_store, pc,
                   commit_vars>>

\* A call of Order::status
order_status(id) ==
    /\ pc = "ready"
    /\ id \in DOMAIN orders
    /\ op' = CalledOn("order_status", id)
    /\ ret' = StatusRef(OrderStatus(orders[id]))
    /\ UNCHANGED <<store_vars, length, broker_faulty, limit, uc, orders, test_store, pc,
                   commit_vars>>

InitBacklog == Constructed /\ broker_faulty = FALSE /\ limit = MaxEvents

NextBacklog ==
    \/ \E id \in OrderIds : order_create(CreateOrderEvent(id))
    \/ \E id \in OrderIds, event_id \in OrderIds, action \in OrderActions :
          order_resolve(id, OrderResolveEvent(event_id, action))
    \/ \E id \in OrderIds : order_status(id)

SpecBacklog == InitBacklog /\ [][NextBacklog]_vars

\* The canonical order of the actions, and the place of a status among the
\* stages.
CanonicalActions == <<"Ship", "Deliver">>
Stage(status) == CHOOSE n \in 1..Len(OrderStatuses) : OrderStatuses[n] = status

\* C19: create() yields Pending; after n resolve() calls in the canonical
\* order (Ship, then Deliver) status() is the n-th stage after Pending; every
\* resolve() returns the new status, and a status() call right after it
\* returns the same value.
C19_CanonicalOrderReachesNthStage ==
    [][ /\ op'.name = "order_create" => orders'[op'.id].status = "Pending"
        /\ \A id \in DOMAIN orders' :
              IsPrefix(orders'[id].resolved, CanonicalActions) =>
                 orders'[id].status = OrderStatuses[Len(orders'[id].resolved) + 1]
        /\ op'.name = "order_resolve" =>
              /\ ret'.res = "Ok"
              /\ ret'.status = orders'[op'.id].status
        /\ (op.name = "order_resolve" /\ op'.name = "order_status" /\ op'.id = op.id)
              => ret' = ret ]_vars

\* C19 witness: after Ship and then Deliver, status() has returned Delivered.
C19_Witness ==
    /\ op.name = "order_status"
    /\ orders[op.id].resolved = CanonicalActions
    /\ ret.status = "Delivered"

\* C20 as stated: no resolve() call moves the status of an Order to an
\* earlier stage of Pending < Shipped < Delivered.
C20_StatusNeverRegresses ==
    [][ \A id \in DOMAIN orders \cap DOMAIN orders' :
           Stage(orders'[id].status) >= Stage(orders[id].status) ]_vars

(***************************************************************************)
(* The collections and user_add_usecase together, from an empty store:      *)
(* every state here is reached through create, handle_command,              *)
(* user_add_usecase and begin, commit and rollback alone.                   *)
(***************************************************************************)
\* Events the store may hold: an organization, its renaming and one call of
\* user_add_usecase.
MaxProgramEvents == 5

ProgramOrgData == {<<"a", 1>>}
ProgramOrgCommands == {CmdRename("b"), CmdAddUser(1, "a-u"), CmdAddUser(2, "a-v")}

InitProgram == Constructed /\ broker_faulty = FALSE /\ limit = MaxProgramEvents

NextProgram ==
    \/ begin
    \/ commit
    \/ commit_publish_org
    \/ commit_publish_user
    \/ commit_return
    \/ rollback
    \/ \E data \in ProgramOrgData : org_create(data)
    \/ \E data \in UserData : user_create(data)
    \/ \E command \in ProgramOrgCommands : org_handle_command("a", command)
    \/ \E name \in UserNames, email \in Emails : uc_call(name, email, "a")
    \/ uc_reserve
    \/ uc_create
    \/ uc_add_user
    \/ uc_return

SpecProgram == InitProgram /\ [][NextProgram]_vars

(***************************************************************************)
(* Every operation together: the store's own save beside the collections    *)
(* and user_add_usecase.                                                    *)
(***************************************************************************)
\* Events the store may hold: an organization and one call of
\* user_add_usecase.
MaxAllEvents == 4

InitAll == Constructed /\ broker_faulty = FALSE /\ limit = MaxAllEvents

NextAll ==
    \/ begin
    \/ commit
    \/ commit_publish_org
    \/ commit_publish_user
    \/ commit_return
    \/ rollback
    \/ \E event \in OrgSaveEvents : save_org(<<event>>)
    \/ \E event \in UserSaveEvents : save_user(<<event>>)
    \/ \E data \in ProgramOrgData : org_create(data)
    \/ \E data \in UserData : user_create(data)
    \/ org_handle_command("a", CmdRename("b"))
    \/ user_handle_command(1, CmdChangeEmail("f"))
    \/ \E name \in UserNames, email \in Emails : uc_call(name, email, "a")
    \/ uc_reserve
    \/ uc_create
    \/ uc_add_user
    \/ uc_return

SpecAll == InitAll /\ [][NextAll]_vars

\* Every log of before is a prefix of the log after keeps under the same id.
LogsExtended(before, after) ==
    \A id \in DOMAIN before :
        /\ id \in DOMAIN after
        /\ Len(before[id]) <= Len(after[id])
        /\ \A i \in 1..Len(before[id]) : after[id][i] = before[id][i]

\* C21: event logs are append-only: in every step of the store's, the
\* collections' and user_add_usecase's operations the durable log each id had
\* is a prefix of the durable log it has afterwards.
C21_LogsAppendOnly ==
    [][ /\ LogsExtended(org_events, org_events')
        /\ LogsExtended(user_events, user_events') ]_vars

\* C21 witness: a commit has appended events to a log that already held some.
C21_Witness ==
    /\ pc = "commit_publish"
    /\ \E id \in DOMAIN org_event_to_publish :
          /\ Len(org_event_to_publish[id]) > 0
          /\ Len(org_events[id]) > Len(org_event_to_publish[id])

\* C22: in every state reached from the empty store through create,
\* handle_command, user_add_usecase and begin, commit and rollback, every
\* non-empty durable log starts with a Created event, and find returns
\* InvalidEvent for no id.
C22_LogsStartWithCreated ==
    /\ \A id \in DOMAIN org_events :
          org_events[id] # <<>> => org_events[id][1].k = "Created"
    /\ \A id \in DOMAIN user_events :
          user_events[id] # <<>> => user_events[id][1].k = "Created"
    /\ \A id \in OrgNames : OrgFind(id).res = "Ok"
    /\ \A id \in 1..(length + 1) : UserFind(id).res = "Ok"

\* C22 witness: an organization with a Created, a Renamed and a UserAdded
\* event durable, and a user, both found.
C22_Witness ==
    /\ \E id \in DOMAIN org_events :
          /\ Len(org_events[id]) >= 3
          /\ OrgFind(id).some
          /\ OrgFind(id).aggregate.name # id
          /\ DOMAIN OrgFind(id).aggregate.users # {}
    /\ \E id \in DOMAIN user_events : UserFind(id).some

\* The step in which the running user_add_usecase enters commit.
UsecaseCommitStep == pc = "uc_commit" /\ pc' = "commit_publish"

\* What the commit of a successful call makes durable, as C23 states it: in
\* the organization's log exactly UserReserved and then UserAdded(user_id,
\* uo_id), a new user log of exactly one Created event, and nothing else.
UsecaseCommitsItsThreeEvents ==
    /\ ~in_transaction'
    /\ DOMAIN org_events' = DOMAIN org_events
    /\ \A id \in DOMAIN org_events \ {uc.org_id} : org_events'[id] = org_events[id]
    /\ Len(org_events'[uc.org_id]) = Len(org_events[uc.org_id]) + 2
    /\ IsPrefix(org_events[uc.org_id], org_events'[uc.org_id])
    /\ org_events'[uc.org_id][Len(org_events[uc.org_id]) + 1].k = "Aggregate"
    /\ org_events'[uc.org_id][Len(org_events[uc.org_id]) + 1].ev.t = "UserReserved"
    /\ org_events'[uc.org_id][Len(org_events[uc.org_id]) + 2] =
          [k |-> "Aggregate", id |-> uc.org_id,
           ev |-> [t |-> "UserAdded", user |-> uc.user_id, uo |-> uc.uo_id]]
    /\ uc.user_id \notin DOMAIN user_events
    /\ DOMAIN user_events' = DOMAIN user_events \cup {uc.user_id}
    /\ \A id \in DOMAIN user_events : user_events'[id] = user_events[id]
    /\ user_events'[uc.user_id] =
          <<[k |-> "Created", id |-> uc.user_id, name |-> uc.name, email |-> uc.email,
             organization_id |-> uc.org_id, uo_id |-> uc.uo_id]>>
    /\ TotalLen(org_event_to_publish') + TotalLen(user_event_to_publish') = 3

\* C23 as stated: the commit of a successful user_add_usecase appends to the
\* organization's durable log exactly UserReserved and UserAdded(user_id,
\* uo_id), creates the durable log of a new user id with exactly one Created
\* event, makes these three events and no other durable, and leaves the store
\* Idle.
C23_SuccessCommitsExactlyThreeEvents ==
    [][UsecaseCommitStep => UsecaseCommitsItsThreeEvents]_vars

\* C24 as stated: in every reachable state the organization find returns has
\* at most max_users members.
C24_UsersWithinCap ==
    \A id \in OrgNames :
        (OrgFind(id).res = "Ok" /\ OrgFind(id).some) =>
            Cardinality(DOMAIN OrgFind(id).aggregate.users)
                <= OrgFind(id).aggregate.max_users

\* C25 as stated: when a successful user_add_usecase commits, the reservation
\* id of its UserReserved event equals the UserOrganizationId of its
\* UserAdded event and of its user's Created event, whatever the state of the
\* organization, renamed or not.
C25_ReservationIdMatches ==
    [][ UsecaseCommitStep =>
           LET buffered == org_uncommitted_events[uc.org_id]
               n == Len(buffered)
               created == user_uncommitted_events[uc.user_id]
           IN /\ buffered[n].ev.t = "UserAdded"
              /\ buffered[n - 1].ev.t = "UserReserved"
              /\ buffered[n - 1].ev.uo = buffered[n].ev.uo
              /\ created[Len(created)].k = "Created"
              /\ created[Len(created)].uo_id = buffered[n - 1].ev.uo ]_vars

\* C26: no read-your-writes.  After create of an aggregate that has no
\* durable log and before commit, find of the returned id yields none and
\* handle_command on it returns NotFound and buffers nothing; the commit that
\* makes the Created event durable makes the aggregate visible to find.
C26_NoReadYourWrites ==
    [][ /\ \A id \in OrgNames :
              ( /\ op'.name = "org_create"
                /\ ret'.res = "Ok"
                /\ ret'.org_id = id
                /\ load_org(id) = <<>> ) =>
                   /\ OrgFind(id)' = None
                   /\ \A command \in ProgramOrgCommands :
                         OrgCommandResult(id, command)' = NotFound(id)
        /\ \A id \in 1..(length + 1) :
              ( /\ op'.name = "user_create"
                /\ ret'.res = "Ok"
                /\ ret'.user_id = id ) =>
                   /\ load_user(id) = <<>>
                   /\ UserFind(id)' = None
                   /\ UserCommandResult(id, CmdChangeEmail("f"))' = NotFound(id)
        /\ ( /\ op'.name = "org_handle_command"
             /\ load_org(op'.id) = <<>>
             /\ op'.id \in DOMAIN org_uncommitted_events ) =>
                /\ ret' = NotFound(op'.id)
                /\ UNCHANGED store_vars
        /\ CommitStep =>
              /\ \A id \in DOMAIN org_uncommitted_events :
                    (load_org(id) = <<>> /\ org_uncommitted_events[id][1].k = "Created")
                       => /\ OrgFind(id) = None
                          /\ OrgFind(id)'.some
              /\ \A id \in DOMAIN user_uncommitted_events :
                    (load_user(id) = <<>> /\ user_uncommitted_events[id][1].k = "Created")
                       => /\ UserFind(id) = None
                          /\ UserFind(id)'.some ]_vars

\* C26 witness: inside the transaction that created organization "a",
\* handle_command on "a" has returned NotFound.
C26_Witness ==
    /\ op.name = "org_handle_command"
    /\ in_transaction
    /\ ret = NotFound(op.id)
    /\ load_org(op.id) = <<>>
    /\ op.id \in DOMAIN org_uncommitted_events
    /\ org_uncommitted_events[op.id][1].k = "Created"

\* C27: UserCollection.create never hands out the same UserId twice.  Every
\* call, from a caller or from user_add_usecase, failed or not, attempts the
\* id length + 1 and leaves length at that id; nothing else changes length;
\* and no id above length is in use, so the attempted ids increase strictly.
C27_UserIdsStrictlyIncrease ==
    [][ /\ length' >= length
        /\ length' # length =>
              \/ op'.name = "user_create"
              \/ pc = "uc_create"
        /\ op'.name = "user_create" =>
              /\ length' = length + 1
              /\ IF in_transaction
                 THEN ret'.res = "Ok" /\ ret'.user_id = length + 1
                 ELSE ret' = StoreError
        /\ (pc = "uc_create" /\ pc' # "uc_create") =>
              /\ length' = length + 1
              /\ pc' = "uc_add_user" => uc'.user_id = length + 1
        /\ \A id \in DOMAIN user_uncommitted_events' \cup DOMAIN user_events' :
              id <= length' ]_vars

\* C27 witness: after an attempt that failed outside a transaction and left no
\* event, create has returned the next id.
C27_Witness ==
    /\ op.name = "user_create"
    /\ ret.res = "Ok"
    /\ ret.user_id = 2
    /\ 1 \notin DOMAIN user_uncommitted_events
    /\ 1 \notin DOMAIN user_events

\* Every event of events is a Created event.
AllCreated(events) == \A i \in 1..Len(events) : events[i].k = "Created"

\* log without the Created events after its first event.
LaterCreatedDropped(log) ==
    IF log = <<>> THEN log
    ELSE <<log[1]>> \o SelectSeq(Tail(log), LAMBDA e : e.k # "Created")

\* C28: create with a name whose organization has a durable log succeeds
\* inside a transaction, returns the same OrganizationId and buffers one more
\* Created event for it; the commit appends it to that log; and find steps
\* over every Created event after the first, so the organization it returns
\* (name, users, max_users) is the one it returned before.
C28_DuplicateCreateIsIgnored ==
    [][ /\ \A id \in OrgNames :
              ( /\ op'.name = "org_create"
                /\ op'.data[1] = id
                /\ in_transaction
                /\ load_org(id) # <<>> ) =>
                   /\ ret' = [res |-> "Ok", org_id |-> id]
                   /\ AppendedTo(org_uncommitted_events, org_uncommitted_events', id,
                                 <<[k |-> "Created", id |-> id, name |-> op'.data[1],
                                    max_users |-> op'.data[2]]>>)
                   /\ OrgFind(id)' = OrgFind(id)
        /\ (CommitStep \/ UsecaseCommitStep) =>
              \A id \in DOMAIN org_uncommitted_events :
                 (load_org(id) # <<>> /\ AllCreated(org_uncommitted_events[id])) =>
                    /\ org_events'[id] = org_events[id] \o org_uncommitted_events[id]
                    /\ OrgFind(id)' = OrgFind(id)
        /\ \A id \in DOMAIN org_events' :
              OrgFindIn(org_events'[id]) = OrgFindIn(LaterCreatedDropped(org_events'[id])) ]_vars

\* C28 witness: the log of a renamed organization has a second Created event
\* after the Renamed one, and find still returns the renamed organization.
C28_Witness ==
    /\ pc = "ready"
    /\ \E id \in DOMAIN org_events :
          /\ Len(org_events[id]) = 3
          /\ org_events[id][1].k = "Created"
          /\ org_events[id][2].k = "Aggregate"
          /\ org_events[id][2].ev.t = "Renamed"
          /\ org_events[id][3].k = "Created"
          /\ OrgFind(id).some
          /\ OrgFind(id).aggregate.name = "b"

(***************************************************************************)
(* Payments: the OnMemoryEventStore of src/event_store/tests.rs, whose      *)
(* save pushes every event onto the log of its id and whose PaymentQuery    *)
(* handler replays that log.  The metadata string of an event is never      *)
(* read and is left out.                                                    *)
(***************************************************************************)
\* Events in the log of one payment.
MaxPaymentLogLen == 3

\* i32::MAX and i32::MIN
I32Max == 2147483647
I32Min == (-I32Max) - 1

PaymentIds == {"payment-1"}
\* The amounts of test_payment_backlog and the ends of the i32 range.
PaymentAmounts == {10, 100, 110, I32Max, I32Min}

CreatePaymentEvent(id, price) == [k |-> "PaymentCreate", id |-> id, price |-> price]
PaymentResolveEvent(id, action, amount) ==
    [k |-> "PaymentResolve", id |-> id, data |-> [action |-> action, amount |-> amount]]

PaymentEvents ==
    {CreatePaymentEvent(id, price) : id \in PaymentIds, price \in PaymentAmounts}
    \cup {PaymentResolveEvent(id, action, amount) :
             id \in PaymentIds, action \in {"Capture", "Refund"},
             amount \in PaymentAmounts}

\* The slices save is called with: none, one or two events.
PaymentBatches == SeqsUpTo(PaymentEvents, 2)

\* a + b on i32: whether it leaves the range, and the value it wraps to.
I32Add(a, b) ==
    IF b > 0 /\ a > I32Max - b
    THEN [overflow |-> TRUE, value |-> ((a - I32Max) - 1) + ((b - I32Max) - 1)]
    ELSE IF b < 0 /\ a < I32Min - b
    THEN [overflow |-> TRUE, value |-> ((a + I32Max) + 1) + ((b + I32Max) + 1)]
    ELSE [overflow |-> FALSE, value |-> a + b]

\* a - b on i32: whether it leaves the range, and the value it wraps to.
I32Sub(a, b) ==
    IF b > 0 /\ a < I32Min + b
    THEN [overflow |-> TRUE, value |-> ((a + I32Max) + 1) - ((b - I32Max) - 1)]
    ELSE IF b < 0 /\ a > I32Max + b
    THEN [overflow |-> TRUE, value |-> ((a - I32Max) - 1) - ((b + I32Max) + 1)]
    ELSE [overflow |-> FALSE, value |-> a - b]

OnMemoryEventStoreError == [res |-> "Err", err |-> "OnMemoryEventStoreError"]
\* The panic of an arithmetic operation that overflows where overflow is checked.
OverflowPanic == [res |-> "Panic", msg |-> "arithmetic overflow"]
\* The panic of unwrap() on the None of events.get(&id)
UnwrapPanic == [res |-> "Panic", msg |-> "unwrap on None"]

\* events.entry(id).or_insert_with(Vec::new).push(event), for every event
RECURSIVE TestSave(_, _)
TestSave(m, events) ==
    IF events = <<>> THEN m
    ELSE TestSave(EntryPush(m, Head(events).id, Head(events)), Tail(events))

\* The loop of QueryHandler<PaymentQuery>::handle from payment on, over events.
\* Arithmetic that overflows panics where overflow_checks is on (the dev and
\* test profiles) and wraps where it is off (the release profile).
RECURSIVE PaymentHandleFrom(_, _, _, _)
PaymentHandleFrom(payment, events, id, overflow_checks) ==
    IF events = <<>> THEN payment
    ELSE LET event == Head(events) IN
         CASE event.k = "PaymentCreate" ->
                PaymentHandleFrom(Some([id |-> id, status |-> event.price]),
                                  Tail(events), id, overflow_checks)
           [] event.k = "PaymentResolve" ->
                IF ~payment.some THEN OnMemoryEventStoreError
                ELSE LET status ==
                             IF event.data.action = "Capture"
                             THEN I32Sub(payment.aggregate.status, event.data.amount)
                             ELSE I32Add(payment.aggregate.status, event.data.amount)
                     IN  IF status.overflow /\ overflow_checks THEN OverflowPanic
                         ELSE PaymentHandleFrom(
                                  Some([id |-> id, status |-> status.value]),
                                  Tail(events), id, overflow_checks)
           [] OTHER -> PaymentHandleFrom(payment, Tail(events), id, overflow_checks)

\* QueryHandler<PaymentQuery>::handle
PaymentHandle(events, id, overflow_checks) ==
    IF id \notin DOMAIN events THEN UnwrapPanic
    ELSE PaymentHandleFrom(None, events[id], id, overflow_checks)

test_begin ==
    /\ pc = "ready"
    /\ test_store' = [test_store EXCEPT !.is_transaction_active = TRUE]
    /\ op' = Called("test_begin")
    /\ ret' = Ok
    /\ UNCHANGED <<store_vars, length, broker_faulty, limit, uc, orders, pc,
                   commit_vars>>

test_commit ==
    /\ pc = "ready"
    /\ IF ~test_store.is_transaction_active
       THEN /\ ret' = OnMemoryEventStoreError
            /\ UNCHANGED test_store
       ELSE /\ test_store' = [test_store EXCEPT !.is_transaction_active = FALSE]
            /\ ret' = Ok
    /\ op' = Called("test_commit")
    /\ UNCHANGED <<store_vars, length, broker_faulty, limit, uc, orders, pc,
                   commit_vars>>

test_rollback ==
    /\ pc = "ready"
    /\ IF ~test_store.is_transaction_active
       THEN /\ ret' = OnMemoryEventStoreError
            /\ UNCHANGED test_store
       ELSE /\ test_store' = [test_store EXCEPT !.is_transaction_active = FALSE]
            /\ ret' = Ok
    /\ op' = Called("test_rollback")
    /\ UNCHANGED <<store_vars, length, broker_faulty, limit, uc, orders, pc,
                   commit_vars>>

\* EventStore::save of the test store
test_save(events) ==
    /\ pc = "ready"
    /\ \A id \in PaymentIds :
          Len(GetOrDefault(test_store.events, id))
             + Len(SelectSeq(events, LAMBDA e : e.id = id)) <= MaxPaymentLogLen
    /\ test_store' = [test_store EXCEPT !.events = TestSave(@, events)]
    /\ op' = CalledWith("test_save", events)
    /\ ret' = Ok
    /\ UNCHANGED <<store_vars, length, broker_faulty, limit, uc, orders, pc,
                   commit_vars>>

\* A call of handle(PaymentQuery { id }) in a build with or without overflow
\* checks.
payment_handle(id, overflow_checks) ==
    /\ pc = "ready"
    /\ op' = CalledOn("payment_handle", id)
    /\ ret' = PaymentHandle(test_store.events, id, overflow_checks)
    /\ pc' = IF ret'.res = "Panic" THEN "panicked" ELSE pc
    /\ UNCHANGED <<store_vars, length, broker_faulty, limit, uc, orders, test_store,
                   commit_vars>>

InitPayment == Constructed /\ broker_faulty = FALSE /\ limit = MaxEvents

NextPayment ==
    \/ test_begin
    \/ test_commit
    \/ test_rollback
    \/ \E events \in PaymentBatches : test_save(events)
    \/ \E id \in PaymentIds, overflow_checks \in BOOLEAN :
          payment_handle(id, overflow_checks)

SpecPayment == InitPayment /\ [][NextPayment]_vars

\* The unsigned 16-bit halves of the two's complement of an i32.
Half == 65535 + 1
Halves(x) ==
    IF x >= 0 THEN [hi |-> x \div Half, lo |-> x % Half]
    ELSE LET y == (x + I32Max) + 1
         IN  [hi |-> (y \div Half) + (Half \div 2), lo |-> y % Half]

\* The i32 whose two's complement has the halves hi and lo, taken modulo 2^32.
FromHalves(hi, lo) ==
    LET l == lo % Half
        h == (hi + (lo \div Half)) % Half
    IN  IF h >= Half \div 2 THEN ((h - Half) * Half) + l ELSE (h * Half) + l

\* price minus the Capture amounts plus the Refund amounts, modulo 2^32, of a
\* log that starts with its PaymentCreate: each half is summed on its own.
Signed(event, half) ==
    CASE event.k = "PaymentCreate" -> Halves(event.price)[half]
      [] event.data.action = "Capture" -> 0 - Halves(event.data.amount)[half]
      [] event.data.action = "Refund" -> Halves(event.data.amount)[half]

RECURSIVE SignedSum(_, _)
SignedSum(log, half) ==
    IF log = <<>> THEN 0 ELSE Signed(Head(log), half) + SignedSum(Tail(log), half)

PaymentTotal(log) == FromHalves(SignedSum(log, "hi"), SignedSum(log, "lo"))

\* log is one PaymentCreate followed by PaymentResolve events only.
CreateThenResolves(log) ==
    /\ log # <<>>
    /\ log[1].k = "PaymentCreate"
    /\ \A i \in 2..Len(log) : log[i].k = "PaymentResolve"

\* C29 as stated: the query on a log of one PaymentCreate(price) followed by
\* PaymentResolve events yields the status price - Captures + Refunds in
\* 32-bit signed arithmetic, and the query on a log with a PaymentResolve
\* before any PaymentCreate returns an error.
C29_StatusIsPriceLessCapturesPlusRefunds ==
    [][ \A id \in PaymentIds :
           (op' = CalledOn("payment_handle", id) /\ id \in DOMAIN test_store.events) =>
              LET log == test_store.events[id] IN
              /\ CreateThenResolves(log) =>
                    /\ ret'.res = "Ok"
                    /\ ret'.some
                    /\ ret'.aggregate.status = PaymentTotal(log)
              /\ log[1].k = "PaymentResolve" => ret' = OnMemoryEventStoreError ]_vars

====
